---- MODULE Spec2Model ----
(***************************************************************************)
(* A model of bvh_binary.h: the AABB type with its lock-free atomic        *)
(* Expand(box), the default-constructed Node, the Morton key encoder, and  *)
(* the LBVH construction (topology from sorted keys, counter-gated         *)
(* bottom-up refit).  LBVH::Build() is only declared in the header; its    *)
(* body is modelled after the design text (sections 4.3 to 4.5).           *)
(*                                                                         *)
(* A uint32_t is the pair <<hi, lo>> of its 16-bit halves, so that the     *)
(* full 32-bit range (0xFFFFFFFF included) is representable.  A float is   *)
(* the record [s, e, m] of its IEEE-754 sign, biased exponent and          *)
(* mantissa fields; to_uint / to_float move between the two as memcpy      *)
(* does.  Axes are 0..2 as in the code; tuples are indexed by axis + 1.    *)
(*                                                                         *)
(* Float arithmetic (+, -, *, /) is IEEE-754 binary32 with round to        *)
(* nearest even, computed on the fields.  On top of it: the slab test      *)
(* Intersect with the thread-wide MiniRay::Inverse, and the scene bound    *)
(* built by Initialize() and Expand(point) with the keys of the positions  *)
(* normalised through it.                                                  *)
(***************************************************************************)
EXTENDS Integers, Sequences, FiniteSets, TLC

VARIABLES
    Nodes,      \* LBVH::Nodes: index -> [Box, L, R]
    Root,       \* LBVH::Root
    Leaves,     \* leaf (primitive) boxes, index -> AABB
    Keys,       \* sorted (key, id) pairs, position -> <<key, id>>
    counter,    \* refit arrival counter per internal node
    pc,         \* per thread: position in its code
    src,        \* per thread: child reference whose box is being unioned
    tgt,        \* per thread: node index whose Box is being expanded
    axis,       \* per thread: loop variable i of Expand(const AABB&)
    value,      \* per thread: parameter `value` of update_min/update_max
    old_value,  \* per thread: local old_value of update_min/update_max
    spurious,   \* number of spurious compare_exchange_weak failures so far
    passed,     \* history: node -> threads whose decrement yielded zero
    stopped,    \* history: node -> threads whose decrement yielded non-zero
    box0,       \* history: the target box before any Expand (Expand scenario)
    retried,    \* history: threads that re-entered a loop after a failed CAS
    todo,       \* topology stage: nodes whose task has not run yet
    enc,        \* key encoder: the call, its argument and its result
    Inverse,    \* MiniRay::Inverse, the thread's one static reciprocal direction
    ray,        \* the ray under test: MiniRay Position, Direction and the Length
    hit,        \* history: the last AABB::Intersect call and what it returned
    Box,        \* LBVH::Box, the scene bound
    Ps,         \* LBVH::Ps, the positions expanded into Box so far
    phase       \* stage of the pipeline / scenario

vars == <<Nodes, Root, Leaves, Keys, counter, pc, src, tgt, axis, value,
          old_value, spurious, passed, stopped, box0, retried, todo, enc,
          Inverse, ray, hit, Box, Ps, phase>>

----------------------------------------------------------------------------
(* Bounds of the model *)

NumThreads == 2      \* threads expanding one target in the Expand scenario
MaxSpurious == 1     \* spurious compare_exchange_weak failures per run
MaxLeaves == 3       \* primitives T in the refit scenario

----------------------------------------------------------------------------
(* uint32_t *)

Half == 65536

U32(hi, lo) == <<hi, lo>>

Lt32(a, b) == a[1] < b[1] \/ (a[1] = b[1] /\ a[2] < b[2])

Gt32(a, b) == Lt32(b, a)

Le32(a, b) == ~Lt32(b, a)

Min32(a, b) == IF Lt32(b, a) THEN b ELSE a

Max32(a, b) == IF Lt32(a, b) THEN b ELSE a

invalid == U32(65535, 65535)

----------------------------------------------------------------------------
(* float *)

ManBits == 8388608   \* 2^23

Float(s, e, m) == [s |-> s, e |-> e, m |-> m]

maximum == Float(0, 254, ManBits - 1)

minimum == Float(1, 254, ManBits - 1)

to_uint(f) == U32(f.s * 32768 + f.e * 128 + f.m \div Half, f.m % Half)

to_float(ui) == Float(ui[1] \div 32768, (ui[1] % 32768) \div 128,
                      (ui[1] % 128) * Half + ui[2])

IsNaN(f) == f.e = 255 /\ f.m # 0

\* the numeric order of floats: sign-magnitude, with -0 = +0
FloatKey(f) == IF f.s = 0 THEN f.e * ManBits + f.m ELSE 0 - (f.e * ManBits + f.m)

FloatLt(a, b) == ~IsNaN(a) /\ ~IsNaN(b) /\ FloatKey(a) < FloatKey(b)

FloatLe(a, b) == ~IsNaN(a) /\ ~IsNaN(b) /\ FloatKey(a) <= FloatKey(b)

\* glm::min(x, y) is (y < x) ? y : x, glm::max(x, y) is (x < y) ? y : x
FloatMin(x, y) == IF FloatLt(y, x) THEN y ELSE x

FloatMax(x, y) == IF FloatLt(x, y) THEN y ELSE x

----------------------------------------------------------------------------
(* float arithmetic: IEEE-754 binary32, round to nearest, ties to even.     *)
(* A finite float is Sig * 2^(Exp - 150); intermediate results carry three  *)
(* more low bits (guard, round, sticky): X * 2^(ex - 153).                  *)

IsInf(f) == f.e = 255 /\ f.m = 0

IsZero(f) == f.e = 0 /\ f.m = 0

NaN == Float(0, 255, ManBits \div 2)

Inf(s) == Float(s, 255, 0)

Neg(f) == Float(1 - f.s, f.e, f.m)

Sig(f) == IF f.e = 0 THEN f.m ELSE ManBits + f.m

Exp(f) == IF f.e = 0 THEN 1 ELSE f.e

\* x / 2^n, any bit shifted out kept in the lowest bit
ShiftRightSticky(x, n) ==
    IF n >= 31 THEN (IF x = 0 THEN 0 ELSE 1)
    ELSE LET q == x \div 2^n
         IN  IF x % 2^n = 0 \/ q % 2 = 1 THEN q ELSE q + 1

\* a significand below 2^23 brought up to [2^23, 2^24), the exponent following
RECURSIVE NormSig(_, _)
NormSig(sig, ex) ==
    IF sig >= ManBits THEN [sig |-> sig, ex |-> ex] ELSE NormSig(2 * sig, ex - 1)

\* X * 2^(ex - 153), X below 2^28, brought to 2^26 <= X < 2^27 or to ex = 1
RECURSIVE Normalize(_, _)
Normalize(x, ex) ==
    IF x >= 16 * ManBits THEN Normalize(ShiftRightSticky(x, 1), ex + 1)
    ELSE IF ex < 1 THEN Normalize(ShiftRightSticky(x, 1 - ex), 1)
    ELSE IF x < 8 * ManBits /\ ex > 1 THEN Normalize(2 * x, ex - 1)
    ELSE [x |-> x, ex |-> ex]

\* the float nearest to (-1)^s * X * 2^(ex - 153), ties to even
RoundPack(s, x, ex) ==
    LET n == Normalize(x, ex)
        grs == n.x % 8
        up == grs > 4 \/ (grs = 4 /\ (n.x \div 8) % 2 = 1)
        sig == n.x \div 8 + (IF up THEN 1 ELSE 0)
        sig2 == IF sig >= 2 * ManBits THEN sig \div 2 ELSE sig
        ex2 == IF sig >= 2 * ManBits THEN n.ex + 1 ELSE n.ex
    IN  IF sig2 < ManBits THEN Float(s, 0, sig2)
        ELSE IF ex2 >= 255 THEN Inf(s)
        ELSE Float(s, ex2, sig2 - ManBits)

\* a + b
FAdd(a, b) ==
    IF IsNaN(a) \/ IsNaN(b) THEN NaN
    ELSE IF IsInf(a) THEN (IF IsInf(b) /\ a.s # b.s THEN NaN ELSE a)
    ELSE IF IsInf(b) THEN b
    ELSE LET aBig == Exp(a) > Exp(b) \/ (Exp(a) = Exp(b) /\ Sig(a) >= Sig(b))
             p == IF aBig THEN a ELSE b
             q == IF aBig THEN b ELSE a
             xp == 8 * Sig(p)
             xq == ShiftRightSticky(8 * Sig(q), Exp(p) - Exp(q))
         IN  IF p.s = q.s THEN RoundPack(p.s, xp + xq, Exp(p))
             ELSE IF xp = xq THEN Float(0, 0, 0)
             ELSE RoundPack(p.s, xp - xq, Exp(p))

\* a - b
FSub(a, b) == FAdd(a, IF IsNaN(b) THEN b ELSE Neg(b))

Xor(s, t) == (s + t) % 2

\* a * b: the 48-bit product of the significands from 12-bit halves
FMul(a, b) ==
    IF IsNaN(a) \/ IsNaN(b) THEN NaN
    ELSE IF IsInf(a) \/ IsInf(b)
         THEN (IF IsZero(a) \/ IsZero(b) THEN NaN ELSE Inf(Xor(a.s, b.s)))
    ELSE IF IsZero(a) \/ IsZero(b) THEN Float(Xor(a.s, b.s), 0, 0)
    ELSE LET na == NormSig(Sig(a), Exp(a))
             nb == NormSig(Sig(b), Exp(b))
             a1 == na.sig \div 4096
             a0 == na.sig % 4096
             b1 == nb.sig \div 4096
             b0 == nb.sig % 4096
             mid == a1 * b0 + a0 * b1
             low == (mid % 4096) * 4096 + a0 * b0
             lo == low % (2 * ManBits)
             hi == a1 * b1 + mid \div 4096 + low \div (2 * ManBits)
             x == hi * 16 + lo \div (ManBits \div 8)
                  + (IF lo % (ManBits \div 8) = 0 \/ (lo \div (ManBits \div 8)) % 2 = 1
                     THEN 0 ELSE 1)
         IN  RoundPack(Xor(a.s, b.s), x, na.ex + nb.ex - 127)

\* the quotient bits of r / d after the binary point, `n` of them, then sticky
RECURSIVE DivBits(_, _, _, _)
DivBits(r, d, n, acc) ==
    IF n = 0 THEN (IF r = 0 \/ acc % 2 = 1 THEN acc ELSE acc + 1)
    ELSE IF 2 * r >= d THEN DivBits(2 * r - d, d, n - 1, 2 * acc + 1)
    ELSE DivBits(2 * r, d, n - 1, 2 * acc)

\* a / b
FDiv(a, b) ==
    IF IsNaN(a) \/ IsNaN(b) THEN NaN
    ELSE IF IsInf(a) THEN (IF IsInf(b) THEN NaN ELSE Inf(Xor(a.s, b.s)))
    ELSE IF IsInf(b) THEN Float(Xor(a.s, b.s), 0, 0)
    ELSE IF IsZero(b) THEN (IF IsZero(a) THEN NaN ELSE Inf(Xor(a.s, b.s)))
    ELSE IF IsZero(a) THEN Float(Xor(a.s, b.s), 0, 0)
    ELSE LET na == NormSig(Sig(a), Exp(a))
             nb == NormSig(Sig(b), Exp(b))
             whole == IF na.sig >= nb.sig THEN 1 ELSE 0
             x == DivBits(na.sig - whole * nb.sig, nb.sig, 27, whole)
         IN  RoundPack(Xor(a.s, b.s), x, na.ex - nb.ex + 126)

----------------------------------------------------------------------------
(* AABB: the two unions hold the bit patterns; Min / Max are the float view *)

vec3(f) == <<f, f, f>>

Bits(v) == <<to_uint(v[1]), to_uint(v[2]), to_uint(v[3])>>

AABB(mn, mx) == [AtomicMin |-> Bits(mn), AtomicMax |-> Bits(mx)]

BoxMin(b) == <<to_float(b.AtomicMin[1]), to_float(b.AtomicMin[2]), to_float(b.AtomicMin[3])>>

BoxMax(b) == <<to_float(b.AtomicMax[1]), to_float(b.AtomicMax[2]), to_float(b.AtomicMax[3])>>

Initialize == AABB(vec3(maximum), vec3(minimum))

\* Expand(point) without the update of Max
ExpandPointMinOnly(b, p) ==
    AABB([i \in 1..3 |-> FloatMin(p[i], BoxMin(b)[i])], BoxMax(b))

ExpandPoint(b, p) ==
    AABB([i \in 1..3 |-> FloatMin(p[i], BoxMin(b)[i])],
         [i \in 1..3 |-> FloatMax(p[i], BoxMax(b)[i])])

----------------------------------------------------------------------------
(* Node and child references *)

\* a child reference carries its tag in the lowest bit: 1 leaf, 0 node
LeafRef(i) == U32((2 * i + 1) \div Half, (2 * i + 1) % Half)

NodeRef(i) == U32((2 * i) \div Half, (2 * i) % Half)

IsLeaf(ref) == ref[2] % 2 = 1

RefIndex(ref) == ref[1] * 32768 + ref[2] \div 2

Zero32 == U32(0, 0)

\* a constructor that leaves the box as Initialize() does
NodeCtorInitialized == [Box |-> Initialize, L |-> invalid, R |-> invalid]

NodeCtor ==
    [Box |-> [AtomicMin |-> <<to_uint(maximum), to_uint(maximum), to_uint(maximum)>>,
              AtomicMax |-> <<Zero32, Zero32, Zero32>>],
     L |-> invalid,
     R |-> invalid]

SrcBox(ref) == IF IsLeaf(ref) THEN Leaves[RefIndex(ref)] ELSE Nodes[RefIndex(ref)].Box

----------------------------------------------------------------------------
(* AABB::update_min / update_max / Expand(const AABB&), one atomic access  *)
(* per step                                                                *)

NumAxes == 3

\* a loop that is also entered on an equal value
update_min_cond_nonstrict(old, v) == Le32(v, old)

\* the first conjunct of the while condition
update_min_cond(old, v) == Gt32(old, v)

\* the comparison of update_min, carried over unchanged
update_max_cond_copied(old, v) == Gt32(old, v)

update_max_cond(old, v) == Lt32(old, v)

LoopCond(which, old, v) ==
    IF which = "min" THEN update_min_cond(old, v) ELSE update_max_cond(old, v)

\* whether the loop is entered again after a failed compare-exchange
RetryNever(which, old, v) == FALSE

RetryCond(which, old, v) == LoopCond(which, old, v)

\* what a failed compare_exchange_weak leaves in `expected`
FailKeepsExpected(cur, expected) == expected

FailLoadsExpected(cur, expected) == cur

\* std::atomic::compare_exchange_weak without a spurious failure
compare_exchange(cur, expected, desired) ==
    IF cur = expected
    THEN [ok |-> TRUE, mem |-> desired, expected |-> expected]
    ELSE [ok |-> FALSE, mem |-> cur, expected |-> FailLoadsExpected(cur, expected)]

Field(which) == IF which = "min" THEN "AtomicMin" ELSE "AtomicMax"

Cell(t, which) == Nodes[tgt[t]].Box[Field(which)][axis[t] + 1]

CallPc(which) == IF which = "min" THEN "update_min" ELSE "update_max"

CasPc(which) == IF which = "min" THEN "min_cas" ELSE "max_cas"

\* the loop of update_min/update_max is left: on to the next statement of Expand
LeaveLoop(t, which) ==
    /\ pc' = [pc EXCEPT ![t] = IF which = "min" THEN "update_max"
                               ELSE IF axis[t] + 1 < NumAxes THEN "update_min"
                               ELSE "ret"]
    /\ axis' = [axis EXCEPT ![t] = IF which = "min" THEN axis[t]
                                   ELSE IF axis[t] + 1 < NumAxes THEN axis[t] + 1
                                   ELSE 0]
    /\ value' = [value EXCEPT ![t] = Zero32]
    /\ old_value' = [old_value EXCEPT ![t] = Zero32]

InLoop(t, which, old, v) ==
    /\ pc' = [pc EXCEPT ![t] = CasPc(which)]
    /\ value' = [value EXCEPT ![t] = v]
    /\ old_value' = [old_value EXCEPT ![t] = old]
    /\ UNCHANGED axis

\* the call: the argument box.AtomicMin[i] is read, old_value is loaded from
\* the target and the loop condition is evaluated on it.  The two loads are
\* one step: the argument box is a leaf box, which nobody writes, or a node
\* box that C4_FullyFormed shows to be final while it is read.
UpdateCall(t, which) ==
    /\ pc[t] = CallPc(which)
    /\ LET v == SrcBox(src[t])[Field(which)][axis[t] + 1]
           old == Cell(t, which)
       IN  IF LoopCond(which, old, v)
           THEN InLoop(t, which, old, v)
           ELSE LeaveLoop(t, which)
    /\ UNCHANGED <<Nodes, Root, Leaves, Keys, counter, src, tgt, spurious,
                   passed, stopped, box0, enc, retried, todo, phase,
                   Inverse, ray, hit, Box, Ps>>

\* one compare_exchange_weak that behaves as the strong one
UpdateCas(t, which) ==
    /\ pc[t] = CasPc(which)
    /\ LET r == compare_exchange(Cell(t, which), old_value[t], value[t])
       IN  /\ Nodes' = [Nodes EXCEPT ![tgt[t]].Box[Field(which)][axis[t] + 1] = r.mem]
           /\ IF ~r.ok /\ RetryCond(which, r.expected, value[t])
              THEN InLoop(t, which, r.expected, value[t]) /\ retried' = retried \cup {t}
              ELSE LeaveLoop(t, which) /\ UNCHANGED retried
    /\ UNCHANGED <<Root, Leaves, Keys, counter, src, tgt, spurious,
                   passed, stopped, box0, enc, todo, phase,
                   Inverse, ray, hit, Box, Ps>>

\* a spurious failure: the target equals old_value, nothing is stored, and
\* old_value is reloaded with the value it already holds
UpdateCasSpurious(t, which) ==
    /\ pc[t] = CasPc(which)
    /\ Cell(t, which) = old_value[t]
    /\ spurious < MaxSpurious
    /\ spurious' = spurious + 1
    /\ UNCHANGED <<Nodes, Root, Leaves, Keys, counter, pc, src, tgt, axis, value,
                   old_value, passed, stopped, box0, enc, retried, todo, phase,
                   Inverse, ray, hit, Box, Ps>>

update_min(t) == UpdateCall(t, "min") \/ UpdateCas(t, "min")

update_max(t) == UpdateCall(t, "max") \/ UpdateCas(t, "max")

ExpandStep(t) == update_min(t) \/ update_max(t)

SpuriousStep(t) == UpdateCasSpurious(t, "min") \/ UpdateCasSpurious(t, "max")

Threads == DOMAIN pc

NoCall == [fn |-> "none", arg |-> << >>, ret |-> << >>]

NoRay == [Position |-> << >>, Direction |-> << >>, Length |-> << >>]

NoHit == [inverse |-> << >>]

----------------------------------------------------------------------------
(* Scenario: NumThreads threads call Expand(b_t) on one target box *)

f_0 == Float(0, 0, 0)

f_half == Float(0, 126, 0)

f_1 == Float(0, 127, 0)

f_2 == Float(0, 128, 0)

f_m1 == Float(1, 127, 0)

f_m2 == Float(1, 128, 0)

SampleBoxes ==
    << AABB(<<f_0, f_half, f_1>>, <<f_1, f_2, f_2>>),
       AABB(<<f_half, f_0, f_m1>>, <<f_2, f_1, f_0>>),
       AABB(<<f_m2, f_m2, f_1>>, <<f_m1, f_m1, f_1>> ) >>

TargetBoxes ==
    { Initialize, NodeCtor.Box, AABB(<<f_1, f_half, f_2>>, <<f_1, f_1, f_2>>) }

ExpandThreads == 0..(NumThreads - 1)

\* threads are interchangeable: their argument boxes are drawn in sample order
Assignments ==
    { a \in [ExpandThreads -> 1..Len(SampleBoxes)] :
        \A t \in ExpandThreads : t + 1 \in ExpandThreads => a[t] <= a[t + 1] }

InitExpand ==
    /\ phase = "expand"
    /\ \E b \in TargetBoxes :
          /\ box0 = b
          /\ Nodes = [n \in {0} |-> [NodeCtor EXCEPT !.Box = b]]
    /\ Root = Zero32
    /\ \E a \in Assignments : Leaves = [t \in ExpandThreads |-> SampleBoxes[a[t]]]
    /\ Keys = << >>
    /\ counter = [n \in {0} |-> 0]
    /\ pc = [t \in ExpandThreads |-> "update_min"]
    /\ src = [t \in ExpandThreads |-> LeafRef(t)]
    /\ tgt = [t \in ExpandThreads |-> 0]
    /\ axis = [t \in ExpandThreads |-> 0]
    /\ value = [t \in ExpandThreads |-> Zero32]
    /\ old_value = [t \in ExpandThreads |-> Zero32]
    /\ spurious = 0
    /\ passed = [n \in {0} |-> {}]
    /\ stopped = [n \in {0} |-> {}]
    /\ retried = {}
    /\ todo = {}
    /\ enc = NoCall
    /\ Inverse = vec3(f_0)
    /\ ray = NoRay
    /\ hit = NoHit
    /\ Box = Initialize
    /\ Ps = << >>

NextExpand == \E t \in Threads : ExpandStep(t) \/ SpuriousStep(t)

SpecExpand == InitExpand /\ [][NextExpand]_vars

\* fair scheduling of every thread; a spurious failure is never required
SpecExpandFair ==
    InitExpand /\ [][NextExpand]_vars /\ \A t \in ExpandThreads : WF_vars(ExpandStep(t))

AllReturned == \A t \in Threads : pc[t] = "ret"

RECURSIVE FoldMin(_, _, _, _)
FoldMin(acc, ts, field, i) ==
    IF ts = {} THEN acc
    ELSE LET t == CHOOSE x \in ts : TRUE
         IN  FoldMin(Min32(acc, Leaves[t][field][i]), ts \ {t}, field, i)

RECURSIVE FoldMax(_, _, _, _)
FoldMax(acc, ts, field, i) ==
    IF ts = {} THEN acc
    ELSE LET t == CHOOSE x \in ts : TRUE
         IN  FoldMax(Max32(acc, Leaves[t][field][i]), ts \ {t}, field, i)

\* C1: once every concurrent Expand(b_t) on the target has returned, each
\* AtomicMin[i] is the unsigned minimum and each AtomicMax[i] the unsigned
\* maximum of the initial value and all the b_t: no update is lost.
C1_NoLostUpdate ==
    (phase = "expand" /\ AllReturned) =>
        \A i \in 1..3 :
            /\ Nodes[0].Box.AtomicMin[i] = FoldMin(box0.AtomicMin[i], Threads, "AtomicMin", i)
            /\ Nodes[0].Box.AtomicMax[i] = FoldMax(box0.AtomicMax[i], Threads, "AtomicMax", i)

\* all calls returned, after a compare-exchange failed for real (another
\* thread had changed the cell) and after a spurious failure
C1_Witness ==
    /\ phase = "expand"
    /\ AllReturned
    /\ spurious > 0
    /\ retried # {}
    /\ \E t \in Threads : Nodes[0].Box.AtomicMin[1] # Leaves[t].AtomicMin[1]
                          /\ box0.AtomicMin[1] # Nodes[0].Box.AtomicMin[1]

\* C2: under fair scheduling every Expand(box) call returns.
C2_Terminates == <>AllReturned

\* every thread has returned although each of them lost a compare-exchange
\* to another thread and went round its loop again
C2_Witness ==
    /\ phase = "expand"
    /\ AllReturned
    /\ retried = Threads

Finalized(b) == \A i \in 1..3 : FloatLe(BoxMin(b)[i], BoxMax(b)[i])

FloatEq(a, b) == ~IsNaN(a) /\ ~IsNaN(b) /\ FloatKey(a) = FloatKey(b)

SameBox(a, b) ==
    \A i \in 1..3 : /\ FloatEq(BoxMin(a)[i], BoxMin(b)[i])
                    /\ FloatEq(BoxMax(a)[i], BoxMax(b)[i])

NotStarted(t) == pc[t] = "update_min" /\ axis[t] = 0

\* C7: a single atomic Expand(b), b finalized, on a box that Initialize()
\* has emptied leaves the target with Min = b.Min and Max = b.Max.
C7_EmptyImproved ==
    (phase = "expand" /\ box0 = Initialize) =>
        \A t \in Threads :
            (/\ pc[t] = "ret"
             /\ \A u \in Threads \ {t} : NotStarted(u)
             /\ Finalized(Leaves[t])) => SameBox(Nodes[0].Box, Leaves[t])

Contains32(a, b) ==
    \A i \in 1..3 : /\ Le32(a.AtomicMin[i], b.AtomicMin[i])
                    /\ Le32(b.AtomicMax[i], a.AtomicMax[i])

\* thread t's compare-exchange in update_min / update_max succeeds in this step
CasSucceeds(t, which) ==
    /\ pc[t] = CasPc(which)
    /\ pc'[t] # pc[t]
    /\ Cell(t, which) = old_value[t]

CellAfter(t, which) == Nodes'[tgt[t]].Box[Field(which)][axis[t] + 1]

\* C14: no step of any interleaving of Expand(box) calls raises an AtomicMin[i]
\* or lowers an AtomicMax[i] of the target (unsigned); a successful
\* compare-exchange stores `value`, which in update_min is strictly below and
\* in update_max strictly above the value it replaces.
C14_Monotone ==
    [][phase = "expand" =>
          /\ \A i \in 1..3 :
                /\ Le32(Nodes'[0].Box.AtomicMin[i], Nodes[0].Box.AtomicMin[i])
                /\ Le32(Nodes[0].Box.AtomicMax[i], Nodes'[0].Box.AtomicMax[i])
          /\ \A t \in Threads :
                /\ CasSucceeds(t, "min") =>
                      /\ CellAfter(t, "min") = value[t]
                      /\ Lt32(CellAfter(t, "min"), Cell(t, "min"))
                /\ CasSucceeds(t, "max") =>
                      /\ CellAfter(t, "max") = value[t]
                      /\ Lt32(Cell(t, "max"), CellAfter(t, "max"))]_vars

\* a thread is about to succeed with a compare-exchange on an AtomicMax cell
\* that another thread has already raised above its initial value, which in
\* turn had made an earlier compare-exchange of this thread fail
C14_Witness ==
    /\ phase = "expand"
    /\ \E t \in Threads :
          /\ pc[t] = "max_cas"
          /\ t \in retried
          /\ Cell(t, "max") = old_value[t]
          /\ Cell(t, "max") # box0.AtomicMax[axis[t] + 1]
          /\ Lt32(Cell(t, "max"), value[t])

\* thread t's Expand(c) on node n has returned: t came to n from its own leaf
\* or from a child node it walked on from, and is past the last axis
Returned(t, n, c) ==
    /\ c \in {Nodes[n].L, Nodes[n].R}
    /\ c = LeafRef(t) \/ (~IsLeaf(c) /\ t \in passed[RefIndex(c)])
    /\ (tgt[t] = n /\ pc[t] \in {"ret", "stop", "done"}) \/ t \in passed[n]

\* C15: in every state after a thread's Expand(b) on a target has returned,
\* whatever the other threads do to the target, AtomicMin[i] <= b.AtomicMin[i]
\* and AtomicMax[i] >= b.AtomicMax[i] (unsigned) on every axis; in the refit,
\* also in every state after the thread has decremented the counter.
C15_ContainedOnReturn ==
    /\ phase = "expand" =>
          \A t \in Threads : pc[t] = "ret" => Contains32(Nodes[0].Box, Leaves[t])
    /\ phase = "refit" =>
          \A t \in Threads : \A n \in DOMAIN Nodes : \A c \in {Nodes[n].L, Nodes[n].R} :
              Returned(t, n, c) => Contains32(Nodes[n].Box, SrcBox(c))

\* one thread has returned after a failed compare-exchange while another is
\* still in the middle of its own Expand on the same target and has already
\* changed it
C15_Witness ==
    /\ phase = "expand"
    /\ \E t \in Threads : \E u \in Threads :
          /\ pc[t] = "ret"
          /\ t \in retried
          /\ pc[u] \in {"min_cas", "max_cas"}
          /\ axis[u] > 0
          /\ Nodes[0].Box # box0

----------------------------------------------------------------------------
(* LBVH::Build, stage 3: the sort of (key, id) pairs by key, then by id     *)

PairLess(a, b) == a[1] < b[1] \/ (a[1] = b[1] /\ a[2] < b[2])

RECURSIVE Insert(_, _)
Insert(sorted, x) ==
    IF sorted = << >> THEN <<x>>
    ELSE IF PairLess(x, Head(sorted)) THEN <<x>> \o sorted
    ELSE <<Head(sorted)>> \o Insert(Tail(sorted), x)

RECURSIVE SortPairs(_)
SortPairs(seq) ==
    IF seq = << >> THEN << >> ELSE Insert(SortPairs(Tail(seq)), Head(seq))

----------------------------------------------------------------------------
(* LBVH::Build, stage 4: topology from the sorted keys (radix tree)         *)

NumPrims == Len(Keys)

KeyAt(p) == Keys[p + 1]

\* common leading bits of two 32-bit words
RECURSIVE CommonPrefix(_, _)
CommonPrefix(x, y) ==
    IF x = y THEN 32 ELSE CommonPrefix(x \div 2, y \div 2) - 1

\* common prefix of the 64-bit pairs (key, id) at sorted positions a and b;
\* -1 when b is out of bounds
delta(a, b) ==
    IF b < 0 \/ b >= NumPrims THEN -1
    ELSE IF KeyAt(a)[1] # KeyAt(b)[1] THEN CommonPrefix(KeyAt(a)[1], KeyAt(b)[1])
    ELSE 32 + CommonPrefix(KeyAt(a)[2], KeyAt(b)[2])

Sign(x) == IF x > 0 THEN 1 ELSE IF x < 0 THEN -1 ELSE 0

Direction(i) == Sign(delta(i, i + 1) - delta(i, i - 1))

\* a probe bound taken from the neighbour inside the range
DeltaMinInside(i, d) == delta(i, i + d) - 1

\* the prefix length that every key of node i's range exceeds
DeltaMin(i, d) == delta(i, i - d)

\* exponential probe: the first power of two that overshoots the range
RECURSIVE Probe(_, _, _, _)
Probe(i, d, low, bound) ==
    IF delta(i, i + bound * d) > low /\ bound <= NumPrims
    THEN Probe(i, d, low, 2 * bound)
    ELSE bound

\* binary search of the largest offset that keeps the prefix above `low`,
\* with steps t, t/2, ..., 1
RECURSIVE Refine(_, _, _, _, _)
Refine(i, d, low, l, t) ==
    IF t < 1 THEN l
    ELSE Refine(i, d, low, IF delta(i, i + (l + t) * d) > low THEN l + t ELSE l,
                t \div 2)

\* binary search of the split with steps ceil(t/2), ceil(t/4), ..., 1
RECURSIVE SplitSearch(_, _, _, _, _)
SplitSearch(i, d, low, s, t) ==
    LET step == (t + 1) \div 2
        s2 == IF delta(i, i + (s + step) * d) > low THEN s + step ELSE s
    IN  IF step <= 1 THEN s2 ELSE SplitSearch(i, d, low, s2, step)

\* node i's range [first, last] of sorted positions and its split position
Range(i) ==
    LET d == Direction(i)
        low == DeltaMin(i, d)
        l == Refine(i, d, low, 0, Probe(i, d, low, 2) \div 2)
        j == i + l * d
        s == SplitSearch(i, d, delta(i, j), 0, l)
    IN  [first |-> IF i < j THEN i ELSE j,
         last |-> IF i < j THEN j ELSE i,
         split |-> i + s * d + (IF d < 0 THEN d ELSE 0)]

LeftChild(r) == IF r.first = r.split THEN LeafRef(r.split) ELSE NodeRef(r.split)

RightChild(r) ==
    IF r.last = r.split + 1 THEN LeafRef(r.split + 1) ELSE NodeRef(r.split + 1)

NodeIds == 0..(NumPrims - 2)

ToU32(n) == U32(n \div Half, n % Half)

\* the root owns the range of all sorted positions
RootOf ==
    LET owners == {i \in NodeIds : Range(i).first = 0 /\ Range(i).last = NumPrims - 1}
    IN  IF owners = {} THEN invalid ELSE ToU32(CHOOSE i \in owners : TRUE)

BuiltNode(i) ==
    LET r == Range(i) IN [NodeCtor EXCEPT !.L = LeftChild(r), !.R = RightChild(r)]

Topology == [i \in NodeIds |-> BuiltNode(i)]

----------------------------------------------------------------------------
(* Scenario: stages 3 and 4 of LBVH::Build on T >= 0 primitives *)

MaxPrims == 4        \* primitives T in the topology scenario

SampleKeys == {0, 1, 6, 536870912}

\* LBVH has no constructor: Root holds whatever was there before Build()
UninitRoot == { invalid, Zero32, U32(0, 7) }

\* a - b mod 2^32
Sub32(a, b) ==
    LET lo == a[2] - b[2] + Half
    IN  U32((a[1] - b[1] + Half - (IF lo < Half THEN 1 ELSE 0)) % Half, lo % Half)

\* the size T - 1 computed without the special case
NodeCountWrapped(T) == Sub32(ToU32(T), U32(0, 1))

\* the size of Nodes: T - 1, and none for the degenerate T <= 1
NodeCount(T) == IF T <= 1 THEN Zero32 ELSE Sub32(ToU32(T), U32(0, 1))

\* a node count the vector can be sized to
Allocatable(c) == c[1] = 0

InitBuild ==
    /\ phase = "input"
    /\ \E n \in 0..MaxPrims : \E ks \in [1..n -> SampleKeys] :
          Keys = [p \in 1..n |-> <<ks[p], p - 1>>]
    /\ Nodes = << >>
    /\ Root \in UninitRoot
    /\ Leaves = << >>
    /\ counter = << >>
    /\ pc = << >>
    /\ src = << >>
    /\ tgt = << >>
    /\ axis = << >>
    /\ value = << >>
    /\ old_value = << >>
    /\ spurious = 0
    /\ passed = << >>
    /\ stopped = << >>
    /\ box0 = Initialize
    /\ retried = {}
    /\ todo = {}
    /\ enc = NoCall
    /\ Inverse = vec3(f_0)
    /\ ray = NoRay
    /\ hit = NoHit
    /\ Box = Initialize
    /\ Ps = << >>

Sort ==
    /\ phase = "input"
    /\ Keys' = SortPairs(Keys)
    /\ phase' = "sorted"
    /\ UNCHANGED <<Nodes, Root, Leaves, counter, pc, src, tgt, axis, value,
                   old_value, spurious, passed, stopped, box0, enc, retried, todo,
                   Inverse, ray, hit, Box, Ps>>

\* Nodes is sized to NodeCount(T) default-constructed entries; a size that
\* cannot be allocated ends the build
Alloc ==
    /\ phase = "sorted"
    /\ LET c == NodeCount(NumPrims)
       IN  IF Allocatable(c)
           THEN /\ Nodes' = [i \in 0..(c[2] - 1) |-> NodeCtor]
                /\ todo' = 0..(c[2] - 1)
                /\ phase' = "build"
           ELSE /\ phase' = "failed"
                /\ UNCHANGED <<Nodes, todo>>
    /\ UNCHANGED <<Root, Leaves, Keys, counter, pc, src, tgt, axis, value,
                   old_value, spurious, passed, stopped, box0, enc, retried,
                   Inverse, ray, hit, Box, Ps>>

\* the task of node i: it reads the sorted keys only
BuildNode(i) ==
    /\ phase = "build"
    /\ i \in todo
    /\ Nodes' = [Nodes EXCEPT ![i].L = BuiltNode(i).L, ![i].R = BuiltNode(i).R]
    /\ todo' = todo \ {i}
    /\ UNCHANGED <<Root, Leaves, Keys, counter, pc, src, tgt, axis, value,
                   old_value, spurious, passed, stopped, box0, enc, retried, phase,
                   Inverse, ray, hit, Box, Ps>>

\* the barrier that ends the stage
BuildDone ==
    /\ phase = "build"
    /\ todo = {}
    /\ Root' = RootOf
    /\ phase' = "built"
    /\ UNCHANGED <<Nodes, Leaves, Keys, counter, pc, src, tgt, axis, value,
                   old_value, spurious, passed, stopped, box0, enc, retried, todo,
                   Inverse, ray, hit, Box, Ps>>

NextBuild == Sort \/ Alloc \/ (\E i \in todo : BuildNode(i)) \/ BuildDone

SpecBuild == InitBuild /\ [][NextBuild]_vars

\* C8 as amended: a default-constructed Node has L = R = invalid, Min at the
\* largest float on every axis and AtomicMax at bit pattern 0 (Max = +0.0f)
\* on every axis.
C8_DefaultNode ==
    phase = "build" =>
        \A i \in todo :
            /\ Nodes[i].L = invalid
            /\ Nodes[i].R = invalid
            /\ BoxMin(Nodes[i].Box) = vec3(maximum)
            /\ Nodes[i].Box.AtomicMax = vec3(Zero32)
            /\ BoxMax(Nodes[i].Box) = vec3(f_0)

\* C8 as stated: the Box of a default-constructed Node is the box
\* Initialize() produces (Min at the largest, Max at the lowest float).
C8_DefaultIsInitialize ==
    phase = "build" =>
        \A i \in todo :
            /\ Nodes[i].L = invalid
            /\ Nodes[i].R = invalid
            /\ Nodes[i].Box = Initialize

\* Nodes has just been sized for four primitives: three fresh nodes
C8_Witness ==
    /\ phase = "build"
    /\ NumPrims = 4
    /\ todo = {0, 1, 2}

\* in-order walk from a child reference, at most `fuel` levels deep
RECURSIVE Walk(_, _)
Walk(ref, fuel) ==
    IF fuel = 0 \/ ref = invalid THEN <<invalid>>
    ELSE IF IsLeaf(ref) THEN <<ref>>
    ELSE IF RefIndex(ref) \notin DOMAIN Nodes THEN <<invalid>>
    ELSE Walk(Nodes[RefIndex(ref)].L, fuel - 1) \o <<ref>>
         \o Walk(Nodes[RefIndex(ref)].R, fuel - 1)

IsNodeRef(ref) == ~IsLeaf(ref)

TreeShape ==
    LET w == IF Root = invalid THEN <<invalid>>
             ELSE Walk(NodeRef(Root[1] * Half + Root[2]), NumPrims)
        leaves == SelectSeq(w, IsLeaf)
        inner == SelectSeq(w, IsNodeRef)
    IN  /\ DOMAIN Nodes = 0..(NumPrims - 2)
        /\ leaves = [p \in 1..NumPrims |-> LeafRef(p - 1)]
        /\ Len(inner) = NumPrims - 1
        /\ {inner[k] : k \in 1..Len(inner)} = {NodeRef(i) : i \in NodeIds}
        /\ \A i \in NodeIds : Nodes[i].L # invalid /\ Nodes[i].R # invalid

KeysSorted ==
    /\ \A p \in 1..(NumPrims - 1) : PairLess(Keys[p], Keys[p + 1])
    /\ {Keys[p][2] : p \in 1..NumPrims} = 0..(NumPrims - 1)

Degenerate == phase \in {"input", "sorted", "build", "built", "failed"} /\ NumPrims <= 1

----------------------------------------------------------------------------
(* LBVH::Build, stage 5: the counter-gated bottom-up refit *)

\* one arrival counter per internal node, its child count
\* a counter that starts one short of the child count
CounterInitOne == 2 - 1

CounterInit == 2

\* the result of the atomic decrement
FetchSubKeeps(c) == c

FetchSub(c) == c - 1

\* only the thread whose decrement yields zero walks on
Continues(c) == c = 0

\* the internal node that holds a child reference
Parent(ref) == CHOOSE n \in DOMAIN Nodes : Nodes[n].L = ref \/ Nodes[n].R = ref

\* a thread that has unioned its box into node tgt arrives at tgt's counter
Arrive(t) ==
    /\ phase = "refit"
    /\ pc[t] = "ret"
    /\ LET n == tgt[t]
           c == FetchSub(counter[n])
       IN  /\ counter' = [counter EXCEPT ![n] = c]
           /\ IF Continues(c)
              THEN /\ passed' = [passed EXCEPT ![n] = @ \cup {t}]
                   /\ UNCHANGED stopped
                   /\ IF ToU32(n) = Root
                      THEN /\ pc' = [pc EXCEPT ![t] = "done"]
                           /\ UNCHANGED <<src, tgt>>
                      ELSE /\ pc' = [pc EXCEPT ![t] = "update_min"]
                           /\ src' = [src EXCEPT ![t] = NodeRef(n)]
                           /\ tgt' = [tgt EXCEPT ![t] = Parent(NodeRef(n))]
              ELSE /\ stopped' = [stopped EXCEPT ![n] = @ \cup {t}]
                   /\ pc' = [pc EXCEPT ![t] = "stop"]
                   /\ UNCHANGED <<passed, src, tgt>>
    /\ UNCHANGED <<Nodes, Root, Leaves, Keys, axis, value, old_value, spurious,
                   box0, enc, retried, todo,
                   Inverse, ray, hit, Box, Ps>>
    /\ UNCHANGED phase

\* sorted keys of the refit scenario: the tree shapes of two and three
\* leaves, with and without equal keys
RefitKeySets == { <<0, 1>>, <<6, 6>>, <<0, 1, 6>>, <<0, 6, 6>> }

p_a == <<f_0, f_half, f_1>>

p_b == <<f_1, f_2, f_2>>

p_c == <<f_half, f_0, f_1>>

p_d == <<f_2, f_1, f_0>>

n_a == <<f_m1, f_0, f_half>>

n_b == <<f_m2, f_1, f_0>>

n_c == <<f_1, f_m1, f_2>>

n_d == <<f_half, f_m2, f_m1>>

Scenes == { <<p_a, p_b, p_c, p_d>>, <<n_a, n_b, n_c, n_d>> }

\* the inputs of the refit scenario: sorted keys and one point per leaf; the
\* four-leaf input is the balanced tree, whose root is reached from two
\* internal nodes.  Keys and points are chosen independently: the refit
\* reads the topology and the leaf boxes, not the keys the points would
\* encode to.
RefitInputs ==
    (RefitKeySets \X Scenes) \cup { << <<0, 1, 2, 3>>, <<n_a, n_b, n_c, n_d>> >> }

\* each leaf's own bound: Initialize() followed by Expand(point)
LeafBox(p) == ExpandPoint(Initialize, p)

InitRefit ==
    /\ phase = "refit"
    /\ \E in \in RefitInputs :
          /\ Len(in[1]) <= MaxLeaves
          /\ Keys = [p \in 1..Len(in[1]) |-> <<in[1][p], p - 1>>]
          /\ Leaves = [t \in 0..(Len(in[1]) - 1) |-> LeafBox(in[2][t + 1])]
    /\ Nodes = Topology
    /\ Root = RootOf
    /\ counter = [n \in NodeIds |-> CounterInit]
    /\ pc = [t \in 0..(NumPrims - 1) |-> "update_min"]
    /\ src = [t \in 0..(NumPrims - 1) |-> LeafRef(t)]
    /\ tgt = [t \in 0..(NumPrims - 1) |-> Parent(LeafRef(t))]
    /\ axis = [t \in 0..(NumPrims - 1) |-> 0]
    /\ value = [t \in 0..(NumPrims - 1) |-> Zero32]
    /\ old_value = [t \in 0..(NumPrims - 1) |-> Zero32]
    /\ spurious = 0
    /\ passed = [n \in NodeIds |-> {}]
    /\ stopped = [n \in NodeIds |-> {}]
    /\ box0 = NodeCtor.Box
    /\ retried = {}
    /\ todo = {}
    /\ enc = NoCall
    /\ Inverse = vec3(f_0)
    /\ ray = NoRay
    /\ hit = NoHit
    /\ Box = Initialize
    /\ Ps = << >>

NextRefit == \E t \in Threads : ExpandStep(t) \/ SpuriousStep(t) \/ Arrive(t)

SpecRefit == InitRefit /\ [][NextRefit]_vars

RefitDone == phase = "refit" /\ \A t \in Threads : pc[t] \in {"stop", "done"}

InExpand(t) == pc[t] \in {"update_min", "min_cas", "update_max", "max_cas"}

\* C3: exactly one thread, the one whose decrement yields zero, walks on
\* from each internal node; every other arriving thread stops there; no
\* counter goes below zero.
C3_ExactlyOnce ==
    phase = "refit" =>
        \A n \in DOMAIN Nodes :
            /\ counter[n] >= 0
            /\ Cardinality(passed[n]) <= 1
            /\ passed[n] \cap stopped[n] = {}
            /\ counter[n] = 0 <=> passed[n] # {}
            /\ \A t \in stopped[n] : pc[t] = "stop"
            /\ RefitDone => (Cardinality(passed[n]) = 1 /\ Cardinality(stopped[n]) = 1)

\* the refit of three or more leaves is over: every node was passed by one
\* thread and was the last stop of another
C3_Witness ==
    /\ RefitDone
    /\ NumPrims >= 3
    /\ \A n \in DOMAIN Nodes : Cardinality(passed[n]) = 1 /\ Cardinality(stopped[n]) = 1
    /\ \E t \in Threads : pc[t] = "done"

Union32(a, b) ==
    [AtomicMin |-> [i \in 1..3 |-> Min32(a.AtomicMin[i], b.AtomicMin[i])],
     AtomicMax |-> [i \in 1..3 |-> Max32(a.AtomicMax[i], b.AtomicMax[i])]]

\* the box the single-threaded bottom-up run leaves on a child reference
RECURSIVE SeqBox(_)
SeqBox(ref) ==
    IF IsLeaf(ref) THEN Leaves[RefIndex(ref)]
    ELSE Union32(Union32(NodeCtor.Box, SeqBox(Nodes[RefIndex(ref)].L)),
                 SeqBox(Nodes[RefIndex(ref)].R))

\* C4: while a thread unions an internal node's Box into the parent, both
\* child Expand calls on that node have returned and arrived, nobody is
\* still expanding it, and its Box bounds both children's boxes (in the
\* unsigned order Expand works in).
C4_FullyFormed ==
    phase = "refit" =>
        \A t \in Threads :
            (InExpand(t) /\ ~IsLeaf(src[t])) =>
                LET n == RefIndex(src[t])
                IN  /\ Cardinality(passed[n] \cup stopped[n]) = 2
                    /\ \A u \in Threads : tgt[u] = n => ~InExpand(u) /\ pc[u] # "ret"
                    /\ Contains32(Nodes[n].Box, SrcBox(Nodes[n].L))
                    /\ Contains32(Nodes[n].Box, SrcBox(Nodes[n].R))
                    /\ Nodes[n].Box = SeqBox(NodeRef(n))

\* a thread is in the middle of unioning an internal node's box upward, and
\* a compare-exchange on that node had failed and was retried
C4_Witness ==
    /\ phase = "refit"
    /\ \E t \in Threads : /\ pc[t] = "max_cas"
                          /\ ~IsLeaf(src[t])
                          /\ \E u \in retried : u \in stopped[RefIndex(src[t])]

BoxContains(a, b) ==
    \A i \in 1..3 : /\ FloatLe(BoxMin(a)[i], BoxMin(b)[i])
                    /\ FloatLe(BoxMax(b)[i], BoxMax(a)[i])

\* C6: after the refit every node has Min <= Max on each axis and its Box
\* contains both children's boxes, as float values.
C6_Containment ==
    RefitDone =>
        \A n \in DOMAIN Nodes :
            /\ \A i \in 1..3 : FloatLe(BoxMin(Nodes[n].Box)[i], BoxMax(Nodes[n].Box)[i])
            /\ BoxContains(Nodes[n].Box, SrcBox(Nodes[n].L))
            /\ BoxContains(Nodes[n].Box, SrcBox(Nodes[n].R))

\* C9: every interleaving of the refit ends with the Box the single-threaded
\* run computes on every node, and with the topology the sorted keys fix.
C9_ScheduleIndependent ==
    RefitDone =>
        \A n \in DOMAIN Nodes :
            /\ Nodes[n].Box = SeqBox(NodeRef(n))
            /\ Nodes[n].L = Topology[n].L
            /\ Nodes[n].R = Topology[n].R

\* a finished refit in which compare-exchanges failed, spuriously and for
\* real, and the thread of the last leaf was the one to finish the root
C9_Witness ==
    /\ RefitDone
    /\ retried # {}
    /\ spurious > 0
    /\ pc[NumPrims - 1] = "done"

----------------------------------------------------------------------------
(* LBVH::expandBits and LBVH::morton3D, in 32-bit arithmetic *)

\* a * c mod 2^32, for a multiplier c whose halves are below 2^15
Mul32(a, c) ==
    LET p0 == a[2] * c[2]
        mid == a[1] * c[2] + a[2] * c[1] + p0 \div Half
    IN  U32(mid % Half, p0 % Half)

\* a + b mod 2^32
Add32(a, b) ==
    LET lo == a[2] + b[2]
    IN  U32((a[1] + b[1] + lo \div Half) % Half, lo % Half)

RECURSIVE And16(_, _)
And16(x, y) ==
    IF x = 0 \/ y = 0 THEN 0
    ELSE (x % 2) * (y % 2) + 2 * And16(x \div 2, y \div 2)

And32(a, b) == U32(And16(a[1], b[1]), And16(a[2], b[2]))

expandBits(v) ==
    LET v1 == And32(Mul32(v, U32(1, 1)), U32(65280, 255))       \* 0x00010001, 0xFF0000FF
        v2 == And32(Mul32(v1, U32(0, 257)), U32(3840, 61455))   \* 0x00000101, 0x0F00F00F
        v3 == And32(Mul32(v2, U32(0, 17)), U32(49932, 12483))   \* 0x00000011, 0xC30C30C3
    IN  And32(Mul32(v3, U32(0, 5)), U32(18724, 37449))          \* 0x00000005, 0x49249249

\* doubling a float: exact, up to the overflow to infinity
Double(f) ==
    IF f.e = 255 THEN f
    ELSE IF f.e = 0 THEN (IF 2 * f.m >= ManBits THEN Float(f.s, 1, 2 * f.m - ManBits)
                          ELSE Float(f.s, 0, 2 * f.m))
    ELSE IF f.e + 1 >= 255 THEN Float(f.s, 255, 0)
    ELSE Float(f.s, f.e + 1, f.m)

RECURSIVE Scale(_, _)
Scale(f, doublings) == IF doublings = 0 THEN f ELSE Scale(Double(f), doublings - 1)

\* x * 1024.0f
Times1024(f) == Scale(f, 10)

f_1023 == Float(0, 136, 8372224)

\* std::max(a, b) is (a < b) ? b : a, std::min(a, b) is (b < a) ? b : a
StdMax(a, b) == IF FloatLt(a, b) THEN b ELSE a

StdMin(a, b) == IF FloatLt(b, a) THEN b ELSE a

Clamp(x) == StdMin(StdMax(Times1024(x), f_0), f_1023)

\* (uint32_t)x for a float in [0, 1023]: the fraction is dropped
Truncate(f) ==
    IF f.e < 127 THEN Zero32
    ELSE ToU32((ManBits + f.m) \div 2^(150 - f.e))

CellIndex(x) == Truncate(Clamp(x))

\* the three masks combined in the wrong order of significance
morton3DSwapped(x, y, z) ==
    Add32(Add32(Mul32(expandBits(CellIndex(x)), U32(0, 2)),
                Mul32(expandBits(CellIndex(y)), U32(0, 4))),
          expandBits(CellIndex(z)))

morton3D(x, y, z) ==
    Add32(Add32(Mul32(expandBits(CellIndex(x)), U32(0, 4)),
                Mul32(expandBits(CellIndex(y)), U32(0, 2))),
          expandBits(CellIndex(z)))

----------------------------------------------------------------------------
(* Scenario: one call of expandBits or of morton3D *)

SampleCoords ==
    { f_0, Float(1, 0, 0), f_m1, f_1, f_2, f_half,
      Float(0, 125, 2785280),     \* 341/1024
      Float(0, 126, 2785280),     \* 682/1024
      Float(0, 126, 8372224),     \* 1023/1024
      Float(0, 126, 3355443),     \* about 0.7
      Float(0, 117, 0),           \* 1/1024
      Float(0, 0, 1),             \* the smallest denormal
      maximum }

CellRange == 0..1023

InitEncode ==
    /\ phase = "encode"
    /\ \/ \E v \in CellRange : enc = [fn |-> "expandBits", arg |-> <<ToU32(v)>>, ret |-> << >>]
       \/ \E x \in SampleCoords, y \in SampleCoords, z \in SampleCoords :
             enc = [fn |-> "morton3D", arg |-> <<x, y, z>>, ret |-> << >>]
    /\ Nodes = << >>
    /\ Root = invalid
    /\ Leaves = << >>
    /\ Keys = << >>
    /\ counter = << >>
    /\ pc = << >>
    /\ src = << >>
    /\ tgt = << >>
    /\ axis = << >>
    /\ value = << >>
    /\ old_value = << >>
    /\ spurious = 0
    /\ passed = << >>
    /\ stopped = << >>
    /\ box0 = Initialize
    /\ retried = {}
    /\ todo = {}
    /\ Inverse = vec3(f_0)
    /\ ray = NoRay
    /\ hit = NoHit
    /\ Box = Initialize
    /\ Ps = << >>

CallExpandBits ==
    /\ phase = "encode"
    /\ enc.fn = "expandBits"
    /\ enc.ret = << >>
    /\ enc' = [enc EXCEPT !.ret = <<expandBits(enc.arg[1])>>]
    /\ UNCHANGED <<Nodes, Root, Leaves, Keys, counter, pc, src, tgt, axis, value,
                   old_value, spurious, passed, stopped, box0, retried, todo, phase,
                   Inverse, ray, hit, Box, Ps>>

CallMorton3D ==
    /\ phase = "encode"
    /\ enc.fn = "morton3D"
    /\ enc.ret = << >>
    /\ enc' = [enc EXCEPT !.ret = <<morton3D(enc.arg[1], enc.arg[2], enc.arg[3])>>]
    /\ UNCHANGED <<Nodes, Root, Leaves, Keys, counter, pc, src, tgt, axis, value,
                   old_value, spurious, passed, stopped, box0, retried, todo, phase,
                   Inverse, ray, hit, Box, Ps>>

NextEncode == CallExpandBits \/ CallMorton3D

SpecEncode == InitEncode /\ [][NextEncode]_vars

\* bit k of a word below 2^31
BitOf(u, k) == ((u[1] * Half + u[2]) \div 2^k) % 2

Below2to30(u) == u[1] < 16384

\* floor(1024 x) limited to 0..1023, from the value (1 + m/2^23) 2^(e-127)
ExactCell(f) ==
    IF f.s = 1 \/ f.e < 117 THEN 0
    ELSE IF f.e >= 127 THEN 1023
    ELSE (ManBits + f.m) \div 2^(140 - f.e)

\* C10: expandBits(v), v in 0..1023, has bit k of v at bit 3k and every other
\* bit zero; the cell index of a coordinate is floor(1024 x) limited to
\* 0..1023; the key morton3D returns has bit k of the cell index of x at bit
\* 3k+2, of y at 3k+1 and of z at 3k, nothing above bit 29, and equals
\* expandBits(cx)*4 + expandBits(cy)*2 + expandBits(cz).
C10_MortonInterleave ==
    (phase = "encode" /\ enc.ret # << >>) =>
        LET r == enc.ret[1]
        IN  /\ Below2to30(r)
            /\ enc.fn = "expandBits" =>
                  \A k \in 0..9 : /\ BitOf(r, 3 * k) = BitOf(enc.arg[1], k)
                                  /\ BitOf(r, 3 * k + 1) = 0
                                  /\ BitOf(r, 3 * k + 2) = 0
            /\ enc.fn = "morton3D" =>
                  /\ \A a \in 1..3 : CellIndex(enc.arg[a]) = ToU32(ExactCell(enc.arg[a]))
                  /\ \A k \in 0..9 :
                      /\ BitOf(r, 3 * k + 2) = BitOf(ToU32(ExactCell(enc.arg[1])), k)
                      /\ BitOf(r, 3 * k + 1) = BitOf(ToU32(ExactCell(enc.arg[2])), k)
                      /\ BitOf(r, 3 * k) = BitOf(ToU32(ExactCell(enc.arg[3])), k)
                  /\ r = Add32(Add32(Mul32(expandBits(CellIndex(enc.arg[1])), U32(0, 4)),
                                     Mul32(expandBits(CellIndex(enc.arg[2])), U32(0, 2))),
                               expandBits(CellIndex(enc.arg[3])))

\* morton3D has returned the key of a point whose cells are 341, 682, 1023
C10_Witness ==
    /\ phase = "encode"
    /\ enc.fn = "morton3D"
    /\ enc.ret # << >>
    /\ CellIndex(enc.arg[1]) = ToU32(341)
    /\ CellIndex(enc.arg[2]) = ToU32(682)
    /\ CellIndex(enc.arg[3]) = ToU32(1023)
    /\ enc.ret[1] = U32(7541, 55133)

----------------------------------------------------------------------------
(* AABB::Intersect: the slab test.  ray.Inverse is the static thread_local *)
(* member of MiniRay: one vector per thread, whichever ray is passed       *)

\* the near plane distance on axis i of a ray from position p: the min-face
\* when the reciprocal is positive, the max-face otherwise
SlabNear(b, p, inv, i) ==
    FMul(FSub(IF FloatLt(f_0, inv[i]) THEN BoxMin(b)[i] ELSE BoxMax(b)[i], p[i]),
         inv[i])

\* the far plane taken from the same face as the near plane
SlabFarSameFace(b, p, inv, i) ==
    FMul(FSub(IF FloatLt(f_0, inv[i]) THEN BoxMin(b)[i] ELSE BoxMax(b)[i], p[i]),
         inv[i])

SlabFar(b, p, inv, i) ==
    FMul(FSub(IF FloatLt(f_0, inv[i]) THEN BoxMax(b)[i] ELSE BoxMin(b)[i], p[i]),
         inv[i])

\* Intersect(ray, min, length) for a ray at position p when the static
\* member holds inv: the value returned, the out parameter min, the local max
Intersect(b, p, inv, length) ==
    LET x == SlabNear(b, p, inv, 1)
        y == SlabNear(b, p, inv, 2)
        z == SlabNear(b, p, inv, 3)
        min == FloatMax(z, FloatMax(x, y))
        x2 == SlabFar(b, p, inv, 1)
        y2 == SlabFar(b, p, inv, 2)
        z2 == SlabFar(b, p, inv, 3)
        max == FloatMin(z2, FloatMin(x2, y2))
    IN  [ret |-> FloatLe(min, max) /\ FloatLt(f_0, max) /\ FloatLt(min, length),
         min |-> min,
         max |-> max]

----------------------------------------------------------------------------
(* Scenario: one thread stores reciprocal directions into MiniRay::Inverse *)
(* and tests one ray against the scene bound                               *)

f_3 == Float(0, 128, ManBits \div 2)

f_m3 == Float(1, 128, ManBits \div 2)

f_5 == Float(0, 129, ManBits \div 4)

f_mhalf == Float(1, 126, 0)

f_big == Float(0, 227, 0)        \* 2^100

f_tiny == Float(0, 27, 0)        \* 2^-100

RayBoxes ==
    { AABB(<<f_m1, f_m1, f_m1>>, <<f_1, f_1, f_1>>),
      AABB(<<f_m1, f_m1, f_m1>>, <<f_tiny, f_1, f_2>>),
      AABB(<<f_0, f_0, f_0>>, <<f_1, f_1, f_1>>) }

RayPositions ==
    { <<f_0, f_0, f_0>>, <<f_half, f_half, f_half>>,
      <<f_mhalf, f_half, f_mhalf>>, <<f_5, f_5, f_5>> }

RayDirections ==
    { <<f_1, f_1, f_1>>, <<f_m1, f_2, f_mhalf>>, <<f_3, f_m3, f_1>>,
      <<f_big, f_1, f_1>>, <<f_1, f_0, f_0>>, <<f_m1, f_m1, f_m1>> }

RayLengths == { f_1, maximum, f_0, f_m1 }

SampleRays == [Position : RayPositions, Direction : RayDirections, Length : RayLengths]

\* 1 / direction, per axis
Recip(d) == <<FDiv(f_1, d[1]), FDiv(f_1, d[2]), FDiv(f_1, d[3])>>

SampleInverses == { Recip(d) : d \in RayDirections }

InitRay ==
    /\ phase = "ray"
    /\ Inverse = vec3(f_0)
    /\ ray \in SampleRays
    /\ Box \in RayBoxes
    /\ hit = NoHit
    /\ Nodes = << >>
    /\ Root = invalid
    /\ Leaves = << >>
    /\ Keys = << >>
    /\ counter = << >>
    /\ pc = << >>
    /\ src = << >>
    /\ tgt = << >>
    /\ axis = << >>
    /\ value = << >>
    /\ old_value = << >>
    /\ spurious = 0
    /\ passed = << >>
    /\ stopped = << >>
    /\ box0 = Initialize
    /\ retried = {}
    /\ todo = {}
    /\ enc = NoCall
    /\ Ps = << >>

\* the thread stores a reciprocal direction into the static member
StoreInverse(v) ==
    /\ phase = "ray"
    /\ Inverse' = v
    /\ UNCHANGED <<Nodes, Root, Leaves, Keys, counter, pc, src, tgt, axis, value,
                   old_value, spurious, passed, stopped, box0, retried, todo, enc,
                   ray, hit, Box, Ps, phase>>

\* Box.Intersect(ray, min, ray.Length): ray.Inverse names the static member
CallIntersect ==
    /\ phase = "ray"
    /\ LET r == Intersect(Box, ray.Position, Inverse, ray.Length)
       IN  hit' = [inverse |-> Inverse, ret |-> r.ret, min |-> r.min, max |-> r.max]
    /\ UNCHANGED <<Nodes, Root, Leaves, Keys, counter, pc, src, tgt, axis, value,
                   old_value, spurious, passed, stopped, box0, retried, todo, enc,
                   Inverse, ray, Box, Ps, phase>>

NextRay == (\E v \in SampleInverses : StoreInverse(v)) \/ CallIntersect

SpecRay == InitRay /\ [][NextRay]_vars

Tested == phase = "ray" /\ hit # NoHit

MinBelowMax(b) == \A i \in 1..3 : FloatLt(BoxMin(b)[i], BoxMax(b)[i])

StrictlyInside(p, b) ==
    \A i \in 1..3 : FloatLt(BoxMin(b)[i], p[i]) /\ FloatLt(p[i], BoxMax(b)[i])

NonZero(d) == \A i \in 1..3 : ~IsZero(d[i]) /\ ~IsNaN(d[i]) /\ ~IsInf(d[i])

\* the last call tested a ray from inside the box while the member held the
\* reciprocal of that ray's direction
InsideCase ==
    /\ Tested
    /\ hit.inverse = Recip(ray.Direction)
    /\ MinBelowMax(Box)
    /\ StrictlyInside(ray.Position, Box)
    /\ NonZero(ray.Direction)

\* the distance to the plane face[i] of axis i
Plane(face, i) == FMul(FSub(face[i], ray.Position[i]), hit.inverse[i])

Entry(i) ==
    LET a == Plane(BoxMin(Box), i)
        b == Plane(BoxMax(Box), i)
    IN  FloatMin(a, b)

Exit(i) ==
    LET a == Plane(BoxMin(Box), i)
        b == Plane(BoxMax(Box), i)
    IN  FloatMax(a, b)

NoNaNPlane ==
    \A i \in 1..3 : ~IsNaN(Plane(BoxMin(Box), i)) /\ ~IsNaN(Plane(BoxMax(Box), i))

\* an exit distance that is zero although neither of its factors is
Underflow ==
    \E i \in 1..3 :
        /\ IsZero(Exit(i))
        /\ \/ ~IsZero(FSub(BoxMin(Box)[i], ray.Position[i]))
           \/ ~IsZero(FSub(BoxMax(Box)[i], ray.Position[i]))
        /\ ~IsZero(hit.inverse[i])

\* the result is tNear <= tFar and tFar > 0 and tNear < maxLength; tNear is
\* the largest entry and tFar the smallest exit distance of the three axes
SlabResult ==
    Tested =>
        /\ hit.ret <=> (FloatLe(hit.min, hit.max) /\ FloatLt(f_0, hit.max)
                        /\ FloatLt(hit.min, ray.Length))
        /\ (NoNaNPlane /\ \A i \in 1..3 : FloatLe(BoxMin(Box)[i], BoxMax(Box)[i])) =>
              LET e1 == Entry(1)
                  e2 == Entry(2)
                  e3 == Entry(3)
                  x1 == Exit(1)
                  x2 == Exit(2)
                  x3 == Exit(3)
                  near12 == FloatMax(e1, e2)
                  far12 == FloatMin(x1, x2)
              IN  /\ FloatEq(hit.min, FloatMax(e3, near12))
                  /\ FloatEq(hit.max, FloatMin(x3, far12))

\* C11 as stated: a ray from inside a box with Min < Max, non-zero on all
\* axes, is reported as a hit with tNear <= 0 < tFar, whatever the length
\* bound; in general the result is tNear <= tFar, tFar > 0, tNear < maxLength.
C11_InsideHitAlways ==
    /\ InsideCase => (hit.ret /\ FloatLe(hit.min, f_0) /\ FloatLt(f_0, hit.max))
    /\ SlabResult

\* C11 as amended: for a ray from strictly inside a box with Min < Max,
\* finite and non-zero on all axes, tNear <= 0 <= tFar; tFar is zero only
\* when an exit distance underflows to zero; Intersect returns exactly
\* (0 < tFar and tNear < maxLength), so true for every maxLength > 0 when
\* no exit distance underflows.  In general the result is
\* tNear <= tFar, tFar > 0, tNear < maxLength.
C11_InsideHit ==
    /\ InsideCase =>
          /\ FloatLe(hit.min, f_0)
          /\ FloatLe(f_0, hit.max)
          /\ IsZero(hit.max) => Underflow
          /\ hit.ret <=> (FloatLt(f_0, hit.max) /\ FloatLt(hit.min, ray.Length))
          /\ (FloatLt(f_0, ray.Length) /\ ~Underflow) => hit.ret
    /\ SlabResult

\* a ray from inside a box, with a direction of inexact reciprocals, was
\* reported as a hit
C11_Witness ==
    /\ InsideCase
    /\ hit.ret
    /\ ray.Direction = <<f_3, f_m3, f_1>>
    /\ FloatLt(hit.min, f_0)
    /\ FloatLt(f_0, hit.max)

\* C12: testing the ray again gives the same result and the same tNear,
\* whatever was stored for other rays in between.
C12_OwnReciprocal ==
    [][Tested => (hit'.ret = hit.ret /\ hit'.min = hit.min)]_vars

----------------------------------------------------------------------------
(* Scenario: the scene bound of some positions, Initialize() and then      *)
(* Expand(point) by one thread, and the Morton keys of the positions        *)
(* normalised through it                                                   *)

MaxPoints == 3       \* positions expanded into the scene bound

f_m0 == Float(1, 0, 0)

SamplePoints ==
    { <<f_0, f_0, f_0>>, <<f_1, f_0, f_0>>, <<f_0, f_1, f_0>>, <<f_1, f_1, f_0>>,
      <<f_m0, f_m1, f_2>>, <<f_m2, f_half, maximum>> }

\* AABB() = default leaves Min and Max as they were
UninitBoxes == { NodeCtor.Box, AABB(vec3(f_0), vec3(f_m1)) }

\* (p - Min) / (Max - Min)
Nomalize(b, p) ==
    [i \in 1..3 |-> FDiv(FSub(p[i], BoxMin(b)[i]), FSub(BoxMax(b)[i], BoxMin(b)[i]))]

\* what (uint32_t)x may yield when x is NaN: the conversion is undefined
UndefinedCast == { Zero32, U32(32768, 0), invalid }

\* (uint32_t)x
CastU32(f) == IF IsNaN(f) THEN UndefinedCast ELSE {Truncate(f)}

\* xx * 4 + yy * 2 + zz of the expanded cell indices
Interleave(c) ==
    Add32(Add32(Mul32(expandBits(c[1]), U32(0, 4)), Mul32(expandBits(c[2]), U32(0, 2))),
          expandBits(c[3]))

InitPoints ==
    /\ phase = "fresh"
    /\ Box \in UninitBoxes
    /\ Ps = << >>
    /\ enc = NoCall
    /\ Inverse = vec3(f_0)
    /\ ray = NoRay
    /\ hit = NoHit
    /\ Nodes = << >>
    /\ Root = invalid
    /\ Leaves = << >>
    /\ Keys = << >>
    /\ counter = << >>
    /\ pc = << >>
    /\ src = << >>
    /\ tgt = << >>
    /\ axis = << >>
    /\ value = << >>
    /\ old_value = << >>
    /\ spurious = 0
    /\ passed = << >>
    /\ stopped = << >>
    /\ box0 = Initialize
    /\ retried = {}
    /\ todo = {}

\* Box.Initialize()
CallInitialize ==
    /\ phase = "fresh"
    /\ Box' = Initialize
    /\ phase' = "points"
    /\ UNCHANGED <<Nodes, Root, Leaves, Keys, counter, pc, src, tgt, axis, value,
                   old_value, spurious, passed, stopped, box0, retried, todo, enc,
                   Inverse, ray, hit, Ps>>

\* Box.Expand(p)
CallExpand(p) ==
    /\ phase = "points"
    /\ Len(Ps) < MaxPoints
    /\ Box' = ExpandPoint(Box, p)
    /\ Ps' = Append(Ps, p)
    /\ UNCHANGED <<Nodes, Root, Leaves, Keys, counter, pc, src, tgt, axis, value,
                   old_value, spurious, passed, stopped, box0, retried, todo, enc,
                   Inverse, ray, hit, phase>>

\* Box.Nomalize(Ps[k]) once the bound is complete
CallNomalize(k) ==
    /\ phase \in {"points", "keys"}
    /\ k \in 1..Len(Ps)
    /\ enc' = [fn |-> "Nomalize", arg |-> <<Ps[k]>>, ret |-> <<Nomalize(Box, Ps[k])>>]
    /\ phase' = "keys"
    /\ UNCHANGED <<Nodes, Root, Leaves, Keys, counter, pc, src, tgt, axis, value,
                   old_value, spurious, passed, stopped, box0, retried, todo,
                   Inverse, ray, hit, Box, Ps>>

\* morton3D of the normalised position; the three conversions to uint32_t
\* each yield one of the values the conversion can yield
CallMorton3DCast ==
    /\ phase = "keys"
    /\ enc.fn = "Nomalize"
    /\ LET v == enc.ret[1]
       IN  \E cx \in CastU32(Clamp(v[1])), cy \in CastU32(Clamp(v[2])),
              cz \in CastU32(Clamp(v[3])) :
              enc' = [fn |-> "morton3D", arg |-> v, ret |-> <<Interleave(<<cx, cy, cz>>)>>,
                      cells |-> <<cx, cy, cz>>]
    /\ UNCHANGED <<Nodes, Root, Leaves, Keys, counter, pc, src, tgt, axis, value,
                   old_value, spurious, passed, stopped, box0, retried, todo,
                   Inverse, ray, hit, Box, Ps, phase>>

NextPoints ==
    \/ CallInitialize
    \/ \E p \in SamplePoints : CallExpand(p)
    \/ \E k \in 1..MaxPoints : CallNomalize(k)
    \/ CallMorton3DCast

SpecPoints == InitPoints /\ [][NextPoints]_vars

Expanded == phase = "points" /\ Len(Ps) >= 1

Coords(i) == { Ps[k][i] : k \in 1..Len(Ps) }

\* the numerically least / greatest of the i-th coordinates
Least(i) == CHOOSE m \in Coords(i) : \A c \in Coords(i) : FloatLe(m, c)

Greatest(i) == CHOOSE m \in Coords(i) : \A c \in Coords(i) : FloatLe(c, m)

\* Initialize() and then Expand of the positions in the given order
RECURSIVE ExpandAll(_, _)
ExpandAll(order, n) ==
    IF n = 0 THEN Initialize ELSE ExpandPoint(ExpandAll(order, n - 1), Ps[order[n]])

\* C16: after Initialize() and Expand(p_1), ..., Expand(p_n), n >= 1, of
\* finite points, Min is the component-wise least and Max the component-wise
\* greatest coordinate (as numbers: -0 and +0 are one value), Min[i] <= Max[i];
\* every order of the points gives that box; expanding with one of the points
\* again leaves it.
C16_PointBound ==
    Expanded =>
        /\ \A i \in 1..3 :
              /\ FloatEq(BoxMin(Box)[i], Least(i))
              /\ FloatEq(BoxMax(Box)[i], Greatest(i))
              /\ FloatLe(BoxMin(Box)[i], BoxMax(Box)[i])
        /\ \A order \in Permutations(1..Len(Ps)) : SameBox(ExpandAll(order, Len(Ps)), Box)
        /\ \A k \in 1..Len(Ps) : SameBox(ExpandPoint(Box, Ps[k]), Box)

\* three different points, one of them with negative coordinates, have been
\* expanded into the box
C16_Witness ==
    /\ Expanded
    /\ Len(Ps) = 3
    /\ Ps[1] # Ps[2] /\ Ps[2] # Ps[3] /\ Ps[1] # Ps[3]
    /\ BoxMin(Box)[1] = f_m2
    /\ BoxMax(Box)[1] = f_1
    /\ Ps[3] = <<f_m2, f_half, maximum>>

IsCell(c) == c[1] = 0 /\ c[2] <= 1023

Raised(c, a) == [c EXCEPT ![a] = Add32(c[a], U32(0, 1))]

\* C17: every cell index morton3D produces is in 0..1023, the key is below
\* 2^30, and raising one cell index by one does not lower the key.
C17_KeyRange ==
    (phase = "keys" /\ enc.fn = "morton3D") =>
        /\ \A a \in 1..3 : IsCell(enc.cells[a])
        /\ Below2to30(enc.ret[1])
        /\ \A a \in 1..3 :
              (IsCell(enc.cells[a]) /\ enc.cells[a][2] < 1023) =>
                  Le32(enc.ret[1], Interleave(Raised(enc.cells, a)))

====
